---- MODULE Spec2Model ----
(***************************************************************************)
(* A model of gif_unveil: the command-line tool that turns one image into  *)
(* a 10-frame GIF which unveils the image cell by cell over a 3x3 grid.    *)
(* The repository holds two variants of the program, src/gif_unveil.py     *)
(* ("root") and src/gifboxes/gif_unveil.py ("gifboxes"); the variable      *)
(* variant says which one a run executes.                                  *)
(*                                                                         *)
(* Strings are sequences of one-character strings.  An image is a record   *)
(* [w, h, px] with px a function from <<x, y>> to an RGB triple.           *)
(* A duration in seconds is a whole number of sixteenths of a second: such *)
(* floats, and their products with 1000 and quotients by 10, are exact in  *)
(* IEEE double arithmetic, so the integer arithmetic below computes what   *)
(* the floating-point expression of the source computes.                   *)
(***************************************************************************)
EXTENDS Integers, Sequences, FiniteSets

\* ------------------------------------------------------------------ bounds

\* Images read from the input file are 1..MaxDim pixels wide and high.
MaxDim == 5

\* Durations given with -d range over 0..MaxDur sixteenths of a second
\* (and the default).
MaxDur == 3

\* The unit of the duration argument: 1/DurDenom second.
DurDenom == 16

\* ------------------------------------------------------------------ inputs

Variants == {"root", "gifboxes"}

DigitChars == {"0", "1", "2", "3", "4", "5", "6", "7", "8", "9"}

\* The permutation strings given on the command line.
PermStrings == {
    <<"1", "2", "3", "4", "5", "6", "7", "8", "9">>,
    <<"1", ",", "2", ",", "3", ",", "4", ",", "5", ",", "6", ",", "7", ",", "8", ",", "9">>,
    <<"9", ",", "8", ",", "7", ",", "6", ",", "5", ",", "4", ",", "3", ",", "2", ",", "1">>,
    <<"1", " ", "2", " ", "3", " ", "5", " ", "4", " ", "6", " ", "7", " ", "8", " ", "9">>,
    <<"5", ",", " ", "9", ",", " ", "1", ",", " ", "3", ",", " ", "7", ",", " ", "2", ",", " ", "8", ",", " ", "4", ",", " ", "6">>,
    <<"+", "3", ",", "1", ",", "4", ",", "2", ",", "6", ",", "9", ",", "8", ",", "7", ",", "5">>,
    <<"1", ",", ",", "2", ",", "3", ",", "4", ",", "5", ",", "6", ",", "7", ",", "8", ",", "9">>,
    <<"1", "1", "2", "3", "4", "5", "6", "7", " ", "8">>,
    <<"1", "2", "3", "4", "5", "6", "7", "8", "0">>,
    <<"1", "2", "3", "4", "5", "6", "7", "8">>,
    <<"1", ",", "1", ",", "2", ",", "3", ",", "4", ",", "5", ",", "6", ",", "7", ",", "8", ",", "9">>,
    <<"1", ",", "2", ",", "3", ",", "4", ",", "5", ",", "6", ",", "7", ",", "8", ",", "x">>,
    <<"1", ",", "2", ",", "3", ",", "4", ",", "5", ",", "6", ",", "7", ",", "8", ",", "1", "0">>,
    <<"-", "1", ",", "2", ",", "3", ",", "4", ",", "5", ",", "6", ",", "7", ",", "8", ",", "9">>,
    <<"1", ",", "2", ",", "3", ",", "4", ",", "5", ",", "6", ",", "7", ",", "8", ",", "8">>,
    <<>> }

\* The three rejected examples the specification names:
\* "11234567 8", "123456780" and "12345678".
RejectedExamples == {
    <<"1", "1", "2", "3", "4", "5", "6", "7", " ", "8">>,
    <<"1", "2", "3", "4", "5", "6", "7", "8", "0">>,
    <<"1", "2", "3", "4", "5", "6", "7", "8">> }

\* -d/--duration of the root variant, in sixteenths of a second; its default
\* is 12.0 seconds.  The gifboxes variant has no such argument.
DefaultDuration == 12 * DurDenom

Durations(v) == IF v = "root" THEN (0..MaxDur) \cup {DefaultDuration} ELSE {0}

\* What the input path holds: nothing, a file no decoder reads, or an image.
InputFiles == {"missing", "undecodable", "image"}

\* The pixels of the images the input file may hold: every pixel its own
\* colour, or every pixel the colour of the gray fill.
ImagePatterns == {"distinct", "gray"}

SourcePixel(pattern, p) ==
    IF pattern = "distinct" THEN <<p[1], p[2], 0>> ELSE <<128, 128, 128>>

SourceImage(w, h, pattern) ==
    [w |-> w, h |-> h,
     px |-> [p \in (0..(w - 1)) \X (0..(h - 1)) |-> SourcePixel(pattern, p)]]

NoImage == [w |-> 0, h |-> 0, px |-> <<>>]

\* --------------------------------------------------------- string helpers

\* str.replace(a, b) for one-character a and b.
str_replace(s, a, b) == [k \in 1..Len(s) |-> IF s[k] = a THEN b ELSE s[k]]

\* The loop of str.split(sep): `done` holds the finished pieces and `cur`
\* the piece being read.
RECURSIVE str_split_loop(_, _, _, _)
str_split_loop(s, sep, done, cur) ==
    IF s = <<>> THEN Append(done, cur)
    ELSE IF Head(s) = sep
         THEN str_split_loop(Tail(s), sep, Append(done, cur), <<>>)
         ELSE str_split_loop(Tail(s), sep, done, Append(cur, Head(s)))

\* str.split(sep): the pieces between the separators, empty ones kept.
str_split_sep(s, sep) == str_split_loop(s, sep, <<>>, <<>>)


RECURSIVE str_lstrip(_)
str_lstrip(s) ==
    IF s # <<>> /\ Head(s) = " " THEN str_lstrip(Tail(s)) ELSE s

RECURSIVE str_rstrip(_)
str_rstrip(s) ==
    IF s # <<>> /\ s[Len(s)] = " " THEN str_rstrip(SubSeq(s, 1, Len(s) - 1)) ELSE s

\* str.strip()
str_strip(s) == str_rstrip(str_lstrip(s))

\* [x for x in tokens if x.strip()]
RECURSIVE keep_nonblank(_)
keep_nonblank(tokens) ==
    IF tokens = <<>> THEN <<>>
    ELSE IF str_strip(Head(tokens)) # <<>>
         THEN <<Head(tokens)>> \o keep_nonblank(Tail(tokens))
         ELSE keep_nonblank(Tail(tokens))

\* str.split(): the runs of non-blank characters.
str_split(s) == keep_nonblank(str_split_sep(s, " "))

DigitValue(c) ==
    CASE c = "0" -> 0 [] c = "1" -> 1 [] c = "2" -> 2 [] c = "3" -> 3
      [] c = "4" -> 4 [] c = "5" -> 5 [] c = "6" -> 6 [] c = "7" -> 7
      [] c = "8" -> 8 [] c = "9" -> 9

RECURSIVE DigitsValue(_)
DigitsValue(ds) ==
    IF ds = <<>> THEN 0
    ELSE 10 * DigitsValue(SubSeq(ds, 1, Len(ds) - 1)) + DigitValue(ds[Len(ds)])

\* int(x) of a string: blanks around it are dropped, one sign may lead, and
\* one or more decimal digits follow; anything else raises ValueError.
py_int(x) ==
    LET t == str_strip(x)
        signed == t # <<>> /\ Head(t) \in {"+", "-"}
        ds == IF signed THEN Tail(t) ELSE t
        ok == ds # <<>> /\ \A k \in 1..Len(ds) : ds[k] \in DigitChars
    IN  [ok |-> ok,
         val |-> IF ~ok THEN 0
                 ELSE IF signed /\ Head(t) = "-" THEN 0 - DigitsValue(ds)
                 ELSE DigitsValue(ds)]

\* [int(x) for x in tokens]: the list, or ValueError at the first bad token.
int_list(tokens) ==
    LET r == [k \in 1..Len(tokens) |-> py_int(tokens[k])]
    IN  [ok |-> \A k \in 1..Len(tokens) : r[k].ok,
         val |-> [k \in 1..Len(tokens) |-> r[k].val]]

\* The characters of a string, as one-character strings.
chars(s) == [k \in 1..Len(s) |-> <<s[k]>>]

\* ------------------------------------------------- validate_permutation

\* The parse of src/gif_unveil.py: blanks and commas separate the numbers;
\* a string with neither is read digit by digit.
parse_root(perm_str) ==
    IF (\E k \in 1..Len(perm_str) : perm_str[k] = ",")
       \/ (\E k \in 1..Len(perm_str) : perm_str[k] = " ")
    THEN int_list(keep_nonblank(str_split(str_replace(perm_str, ",", " "))))
    ELSE int_list(chars(perm_str))

\* The parse of src/gifboxes/gif_unveil.py: commas separate the numbers.
parse_gifboxes(perm_str) ==
    int_list(keep_nonblank(str_split_sep(perm_str, ",")))

parse(v, perm_str) ==
    IF v = "root" THEN parse_root(perm_str) ELSE parse_gifboxes(perm_str)

Range(s) == {s[k] : k \in 1..Len(s)}

\* The two checks on the parsed list; a failed one raises ValueError.
check_permutation_nolen(perm) == Range(perm) = 1..9

check_permutation(perm) == Len(perm) = 9 /\ Range(perm) = 1..9

\* validate_permutation: the list when it parses and passes the checks
\* (ok), and otherwise the ValueError handler runs (print, sys.exit(1)).
validate_permutation(v, perm_str) ==
    LET p == parse(v, perm_str)
    IN  IF p.ok /\ check_permutation(p.val)
        THEN [ok |-> TRUE, perm |-> p.val]
        ELSE [ok |-> FALSE, perm |-> <<>>]

\* ------------------------------------------------------------- the image

GRAY == <<128, 128, 128>>

\* get_grid_coordinates: the boxes (x1, y1, x2, y2) of the 9 cells, row by
\* row.  The Python list index row * 3 + col is the index k - 1 here.
get_grid_coordinates_noremainder(width, height) ==
    LET cell_width == width \div 3
        cell_height == height \div 3
    IN  [k \in 1..9 |->
            LET row == (k - 1) \div 3
                col == (k - 1) % 3
                x1 == col * cell_width
                y1 == row * cell_height
            IN  <<x1, y1, x1 + cell_width, y1 + cell_height>>]

get_grid_coordinates(width, height) ==
    LET cell_width == width \div 3
        cell_height == height \div 3
    IN  [k \in 1..9 |->
            LET row == (k - 1) \div 3
                col == (k - 1) % 3
                x1 == col * cell_width
                y1 == row * cell_height
                x2 == IF col < 2 THEN x1 + cell_width ELSE width
                y2 == IF row < 2 THEN y1 + cell_height ELSE height
            IN  <<x1, y1, x2, y2>>]

\* Image.new('RGB', (width, height)) without a colour is black.
create_black_frame(width, height) ==
    [w |-> width, h |-> height,
     px |-> [p \in (0..(width - 1)) \X (0..(height - 1)) |-> <<0, 0, 0>>]]

\* create_gray_frame: Image.new('RGB', (width, height), color=(128, 128, 128))
create_gray_frame(width, height) ==
    [w |-> width, h |-> height,
     px |-> [p \in (0..(width - 1)) \X (0..(height - 1)) |-> GRAY]]

\* Image.crop(box): the pixels of the box, moved to the origin.
crop(img, box) ==
    LET rw == box[3] - box[1]
        rh == box[4] - box[2]
    IN  [w |-> rw, h |-> rh,
         px |-> [p \in (0..(rw - 1)) \X (0..(rh - 1)) |->
                    img.px[<<p[1] + box[1], p[2] + box[2]>>]]]

\* A paste that ignores the position and pastes at the origin.
paste_at_origin(frame, region, pos) ==
    [frame EXCEPT !.px =
        [p \in DOMAIN frame.px |->
            IF p[1] \in 0..(region.w - 1) /\ p[2] \in 0..(region.h - 1)
            THEN region.px[p]
            ELSE frame.px[p]]]

\* Image.paste(region, pos): the region's pixels replace the frame's from
\* pos on; the frame's other pixels stay.
paste(frame, region, pos) ==
    [frame EXCEPT !.px =
        [p \in DOMAIN frame.px |->
            IF (p[1] - pos[1]) \in 0..(region.w - 1)
               /\ (p[2] - pos[2]) \in 0..(region.h - 1)
            THEN region.px[<<p[1] - pos[1], p[2] - pos[2]>>]
            ELSE frame.px[p]]]

\* A loop that reveals only the newest cell of a frame.
reveal_range_newest(frame_num) == <<frame_num - 1>>

\* range(frame_num): the indexes i of the inner loop, in its order.
reveal_range(frame_num) == [j \in 1..frame_num |-> j - 1]

\* The body of the inner loop, run for the indexes `is` in order.
RECURSIVE reveal(_, _, _, _, _)
reveal(frame, img, grid, perm, is) ==
    IF is = <<>> THEN frame
    ELSE LET i == Head(is)
             cell_index == perm[i + 1] - 1
             box == grid[cell_index + 1]
             region == crop(img, box)
         IN  reveal(paste(frame, region, <<box[1], box[2]>>),
                    img, grid, perm, Tail(is))

\* The body of the outer loop: frame frame_num.
render_frame(img, grid, perm, frame_num) ==
    reveal(create_gray_frame(img.w, img.h), img, grid, perm,
           reveal_range(frame_num))

\* The cells the inner loop pastes into frame frame_num (0-based indexes).
revealed_cells(perm, frame_num) ==
    {perm[i + 1] - 1 : i \in Range(reveal_range(frame_num))}

\* int(x) of the float num / den: the fraction is dropped, towards zero.
float_to_int(num, den) ==
    IF num >= 0 THEN num \div den ELSE 0 - ((0 - num) \div den)

\* A duration computed over the 9 unveiling frames instead of all of them.
frame_duration_ms_wrong_count(v, duration_seconds, n_frames) ==
    IF v = "root"
    THEN float_to_int(duration_seconds * 1000, DurDenom * (n_frames - 1))
    ELSE 500

\* The duration handed to save: int((duration_seconds * 1000) / len(frames))
\* in the root variant, the literal 500 in the gifboxes variant.
frame_duration_ms(v, duration_seconds, n_frames) ==
    IF v = "root"
    THEN float_to_int(duration_seconds * 1000, DurDenom * n_frames)
    ELSE 500

\* The loop argument of save: none in the root variant (the GIF plays
\* once), loop=0 in the gifboxes variant (it loops for ever).
loop_argument(v) == IF v = "root" THEN "absent" ELSE "0"

\* ------------------------------------------------------------- the state

VARIABLES
    variant,         \* which of the two programs runs
    input_file,      \* what the input path holds (see InputFiles)
    perm_str,        \* args.permutation
    duration,        \* args.duration, in 1/DurDenom second
    out_file,        \* the output path: "absent", "old", "partial", "complete"
    pc,              \* where the run stands
    stdout,          \* what was printed on the standard output stream
    stderr,          \* what was printed on the error stream
    exit_status,     \* the exit status; -1 while the program runs
    permutation,     \* what validate_permutation returned
    original_img,    \* the decoded source image
    grid_coords,     \* what get_grid_coordinates returned
    frames,          \* the list frames
    revealed,        \* for each frame, the cells pasted into it
    decode_attempts, \* how often Image.open was called
    failure,         \* what made the run fail, "none" so far
    encoder_call     \* the arguments of frames[0].save, <<>> before the call

vars == <<variant, input_file, perm_str, duration, out_file, pc, stdout,
          stderr, exit_status, permutation, original_img, grid_coords,
          frames, revealed, decode_attempts, failure, encoder_call>>

args == <<variant, input_file, perm_str, duration>>

image_state == <<original_img, grid_coords, frames, revealed>>

Init ==
    /\ variant \in Variants
    /\ input_file \in InputFiles
    /\ perm_str \in PermStrings
    /\ duration \in Durations(variant)
    /\ out_file \in {"absent", "old"}
    /\ pc = "check_input"
    /\ stdout = <<>>
    /\ stderr = <<>>
    /\ exit_status = -1
    /\ permutation = <<>>
    /\ original_img = NoImage
    /\ grid_coords = <<>>
    /\ frames = <<>>
    /\ revealed = <<>>
    /\ decode_attempts = 0
    /\ failure = "none"
    /\ encoder_call = <<>>

\* ------------------------------------------------------ the error exits

\* A missing input that is reported, after which main goes on.
main_not_found_continue ==
    /\ stdout' = Append(stdout, "Error: Image file not found")
    /\ stderr' = stderr
    /\ exit_status' = exit_status
    /\ pc' = "validate"

\* main: print(f"Error: Image file '{args.image}' not found"); sys.exit(1)
main_not_found_exit ==
    /\ stdout' = Append(stdout, "Error: Image file not found")
    /\ stderr' = stderr
    /\ exit_status' = 1
    /\ pc' = "exited"

\* validate_permutation: print(f"Error parsing permutation: {e}"); sys.exit(1)
validate_error_exit ==
    /\ stdout' = Append(stdout, "Error parsing permutation")
    /\ stderr' = stderr
    /\ exit_status' = 1
    /\ pc' = "exited"

\* A handler that reports the exception and returns: main then ends, and
\* the interpreter exits with status 0.
create_error_return ==
    /\ stdout' = Append(stdout, "Error creating GIF")
    /\ stderr' = stderr
    /\ exit_status' = 0
    /\ pc' = "exited"

\* create_unveil_gif: print(f"Error creating GIF: {e}"); sys.exit(1)
create_error_exit ==
    /\ stdout' = Append(stdout, "Error creating GIF")
    /\ stderr' = stderr
    /\ exit_status' = 1
    /\ pc' = "exited"

\* ------------------------------------------------------------ the steps

\* main: the check that the input path exists.
CheckInputFile ==
    /\ pc = "check_input"
    /\ \/ /\ input_file = "missing"
          /\ failure' = "missing_input"
          /\ main_not_found_exit
       \/ /\ input_file # "missing"
          /\ pc' = "validate"
          /\ UNCHANGED <<stdout, stderr, exit_status, failure>>
    /\ UNCHANGED <<args, out_file, permutation, image_state, decode_attempts,
                   encoder_call>>

\* main: permutation = validate_permutation(args.permutation)
ValidatePermutation ==
    /\ pc = "validate"
    /\ LET r == validate_permutation(variant, perm_str)
       IN  \/ /\ r.ok
              /\ permutation' = r.perm
              /\ pc' = "open"
              /\ UNCHANGED <<stdout, stderr, exit_status, failure>>
           \/ /\ ~r.ok
              /\ failure' = "invalid_permutation"
              /\ validate_error_exit
              /\ UNCHANGED permutation
    /\ UNCHANGED <<args, out_file, image_state, decode_attempts, encoder_call>>

\* create_unveil_gif, up to frame 0: Image.open (with the orientation and
\* the conversion to RGB), the size, the grid, the gray frame.
OpenImage ==
    /\ pc = "open"
    /\ decode_attempts' = decode_attempts + 1
    /\ \/ /\ input_file # "image"
          /\ failure' = "decode"
          /\ create_error_exit
          /\ UNCHANGED image_state
       \/ /\ input_file = "image"
          /\ \E w \in 1..MaxDim, h \in 1..MaxDim, pattern \in ImagePatterns :
                /\ original_img' = SourceImage(w, h, pattern)
                /\ grid_coords' = get_grid_coordinates(w, h)
                /\ frames' = <<create_gray_frame(w, h)>>
                /\ revealed' = <<{}>>
          /\ pc' = "render"
          /\ UNCHANGED <<stdout, stderr, exit_status, failure>>
    /\ UNCHANGED <<args, out_file, permutation, encoder_call>>

\* create_unveil_gif: one pass of the loop over frame_num in range(1, 10).
RenderFrame ==
    /\ pc = "render"
    /\ Len(frames) < 10
    /\ LET frame_num == Len(frames)
       IN  /\ frames' = Append(frames, render_frame(original_img, grid_coords,
                                                    permutation, frame_num))
           /\ revealed' = Append(revealed,
                                 revealed_cells(permutation, frame_num))
    /\ pc' = IF Len(frames') = 10 THEN "save" ELSE "render"
    /\ UNCHANGED <<args, out_file, stdout, stderr, exit_status, permutation,
                   original_img, grid_coords, decode_attempts, failure,
                   encoder_call>>

\* frames[0].save(output_path, save_all=True, append_images=frames[1:],
\* duration=..., [loop=0]): what the encoder is handed.
save_arguments(v, fs, duration_seconds) ==
    [frames |-> <<fs[1]>> \o SubSeq(fs, 2, Len(fs)),
     duration |-> frame_duration_ms(v, duration_seconds, Len(fs)),
     loop |-> loop_argument(v)]

\* create_unveil_gif: the duration, the save and the message.  The encoder
\* writes at output_path itself.  It may fail before it opens the file (the
\* path cannot be written), which leaves the path as it was, or while it
\* writes, after the file was opened and truncated: a file that was there
\* is then damaged, and a file the call created is left half-written or
\* removed, as the library version decides.
SaveGif ==
    /\ pc = "save"
    /\ encoder_call' = save_arguments(variant, frames, duration)
    /\ \/ /\ out_file' = "complete"
          /\ stdout' = Append(stdout, "GIF created successfully")
          /\ exit_status' = 0
          /\ pc' = "exited"
          /\ UNCHANGED <<stderr, failure>>
       \/ /\ out_file' = out_file
          /\ failure' = "write"
          /\ create_error_exit
       \/ /\ out_file' = "partial"
          /\ failure' = "write"
          /\ create_error_exit
       \/ /\ out_file = "absent"
          /\ out_file' = "absent"
          /\ failure' = "write"
          /\ create_error_exit
    /\ UNCHANGED <<args, permutation, image_state, decode_attempts>>

Next ==
    \/ CheckInputFile
    \/ ValidatePermutation
    \/ OpenImage
    \/ RenderFrame
    \/ SaveGif

Spec == Init /\ [][Next]_vars

\* ------------------------------------------------------------ the claims

Pixels(img) == (0..(img.w - 1)) \X (0..(img.h - 1))

InBox(p, box) ==
    /\ box[1] <= p[1] /\ p[1] < box[3]
    /\ box[2] <= p[2] /\ p[2] < box[4]

BoxPixels(img, box) == {p \in Pixels(img) : InBox(p, box)}

GridComputed == grid_coords # <<>>

\* C1: the 9 rectangles of get_grid_coordinates(width, height), row by row,
\* tile the image: each lies within [0,width) x [0,height), every pixel of
\* the image lies in exactly one of them (no gap, no overlap), columns and
\* rows 0 and 1 are floor(width/3) and floor(height/3) wide and high, and
\* the last column and row end at width and height.
C1_GridTilesImage ==
    GridComputed =>
        LET width == original_img.w
            height == original_img.h
        IN  /\ Len(grid_coords) = 9
            /\ \A k \in 1..9 :
                  LET box == grid_coords[k]
                      row == (k - 1) \div 3
                      col == (k - 1) % 3
                  IN  /\ 0 <= box[1] /\ box[1] <= box[3] /\ box[3] <= width
                      /\ 0 <= box[2] /\ box[2] <= box[4] /\ box[4] <= height
                      /\ box[1] = col * (width \div 3)
                      /\ box[2] = row * (height \div 3)
                      /\ col < 2 => box[3] - box[1] = width \div 3
                      /\ row < 2 => box[4] - box[2] = height \div 3
                      /\ col = 2 => box[3] = width
                      /\ row = 2 => box[4] = height
            /\ \A p \in Pixels(original_img) :
                  Cardinality({k \in 1..9 : InBox(p, grid_coords[k])}) = 1

\* C1's case: a width that 3 does not divide and a height below 3.
C1_Witness ==
    /\ GridComputed
    /\ original_img.w = 4
    /\ original_img.h = 2

\* Whether pixel p lies in a cell that frame k shows: the cell
\* permutation[i] - 1 for some i < k.
InRevealedCell(p, k) ==
    \E i \in 0..(k - 1) : InBox(p, grid_coords[(permutation[i + 1] - 1) + 1])

\* C2: each pixel of frame k is the source pixel at the same place when it
\* lies in the rectangle of a cell permutation[i] - 1 with i < k, and the
\* gray fill (128,128,128) otherwise.
C2_FramePixels ==
    \A k \in 0..(Len(frames) - 1) :
        /\ frames[k + 1].w = original_img.w
        /\ frames[k + 1].h = original_img.h
        /\ DOMAIN frames[k + 1].px = Pixels(original_img)
        /\ \A p \in Pixels(original_img) :
              frames[k + 1].px[p] =
                  IF InRevealedCell(p, k) THEN original_img.px[p]
                  ELSE <<128, 128, 128>>

\* C2's case: all 10 frames of an image whose pixels all differ, under a
\* permutation that is not the identity.
C2_Witness ==
    /\ Len(frames) = 10
    /\ original_img.w = 5
    /\ original_img.h = 4
    /\ original_img.px[<<0, 0>>] # GRAY
    /\ permutation = <<9, 8, 7, 6, 5, 4, 3, 2, 1>>

\* C3: frame 0 is gray all over and frame 9 is the source image, pixel for
\* pixel, whatever the permutation.
C3_FirstGrayLastSource ==
    /\ Len(frames) >= 1 =>
          /\ DOMAIN frames[1].px = Pixels(original_img)
          /\ \A p \in Pixels(original_img) : frames[1].px[p] = <<128, 128, 128>>
    /\ Len(frames) = 10 => frames[10] = original_img

\* C3's case: the last frame of an image without gray, the cells unveiled
\* in an order that is neither first-to-last nor last-to-first.
C3_Witness ==
    /\ Len(frames) = 10
    /\ original_img.w = 4
    /\ original_img.h = 5
    /\ original_img.px[<<3, 4>>] # GRAY
    /\ permutation = <<5, 9, 1, 3, 7, 2, 8, 4, 6>>

\* The region frame k shows: the pixels of the cells pasted into it.
Region(k) ==
    UNION {BoxPixels(original_img, grid_coords[c + 1]) : c \in revealed[k + 1]}

\* The pixels of frame k that are not gray.
NotGray(k) == {p \in Pixels(original_img) : frames[k + 1].px[p] # GRAY}

SourceHasNoGray == \A p \in Pixels(original_img) : original_img.px[p] # GRAY

\* C4 as amended: the cells of frame k+1 are those of frame k and exactly
\* one more, permutation[k]; the region of frame k is a subset of the
\* region of frame k+1 and the two differ by exactly the pixels of that
\* cell; the subset is strict when width and height are at least 3.
C4_RevealGrowsByOneCell ==
    /\ Len(revealed) = Len(frames)
    /\ \A k \in 0..(Len(frames) - 1) :
          /\ Cardinality(revealed[k + 1]) = k
          /\ SourceHasNoGray => NotGray(k) = Region(k)
    /\ \A k \in 0..(Len(frames) - 2) :
          LET new == permutation[k + 1] - 1
          IN  /\ new \notin revealed[k + 1]
              /\ revealed[k + 2] = revealed[k + 1] \cup {new}
              /\ Region(k) \subseteq Region(k + 1)
              /\ Region(k + 1) \ Region(k) =
                     BoxPixels(original_img, grid_coords[new + 1])
              /\ (original_img.w >= 3 /\ original_img.h >= 3) =>
                     Region(k) # Region(k + 1)

\* C4's case: all 10 frames of an image of 3 by 3 pixels or more.
C4_Witness ==
    /\ Len(frames) = 10
    /\ original_img.w = 3
    /\ original_img.h = 5
    /\ SourceHasNoGray
    /\ permutation = <<1, 2, 3, 5, 4, 6, 7, 8, 9>>

\* C4 as first stated: for every image size, the region of frame k is a
\* strict subset of the region of frame k+1.
C4_StrictForEverySize ==
    \A k \in 0..(Len(frames) - 2) :
        /\ revealed[k + 2] = revealed[k + 1] \cup {permutation[k + 1] - 1}
        /\ Region(k) \subseteq Region(k + 1)
        /\ Region(k) # Region(k + 1)

IsBijection(perm) ==
    /\ Len(perm) = 9
    /\ \A i \in 1..9 : perm[i] \in 1..9
    /\ \A i, j \in 1..9 : i # j => perm[i] # perm[j]
    /\ \A n \in 1..9 : \E i \in 1..9 : perm[i] = n

ValidationDone == input_file # "missing" /\ pc \notin {"check_input", "validate"}

Returned == permutation # <<>>

Rejected == failure = "invalid_permutation"

\* C5: validate_permutation returns a sequence exactly when the parse of
\* the string gives 9 integers whose set is {1..9}; what it returns is the
\* parsed list and a bijection on {1..9}; every other string, the three
\* examples among them, is rejected with an error and exit status 1.
C5_ValidateAcceptsExactlyPermutations ==
    LET p == parse(variant, perm_str)
        good == p.ok /\ Len(p.val) = 9 /\ {p.val[k] : k \in 1..Len(p.val)} = 1..9
    IN  /\ ValidationDone => (Returned <=> good) /\ (Rejected <=> ~good)
        /\ Returned => permutation = p.val /\ IsBijection(permutation)
        /\ Rejected => ~Returned /\ pc = "exited" /\ exit_status = 1
        /\ (ValidationDone /\ perm_str \in RejectedExamples) => Rejected

\* C5's case: the example "11234567 8" is rejected.
C5_Witness ==
    /\ Rejected
    /\ perm_str = <<"1", "1", "2", "3", "4", "5", "6", "7", " ", "8">>

\* C6: Image.open is called only after the input file was found and the
\* permutation was validated; a run that fails on either reports it and
\* ends with no decoding and no other image work done.
C6_DecodeAfterChecks ==
    /\ decode_attempts > 0 =>
          /\ input_file # "missing"
          /\ validate_permutation(variant, perm_str).ok
          /\ Returned
    /\ failure \in {"missing_input", "invalid_permutation"} =>
          /\ decode_attempts = 0
          /\ original_img = NoImage
          /\ grid_coords = <<>>
          /\ frames = <<>>
          /\ encoder_call = <<>>
          /\ stdout # <<>>
          /\ pc = "exited"

\* C6's case: the image was decoded.
C6_Witness ==
    /\ decode_attempts = 1
    /\ pc = "render"

Diagnostics ==
    {"Error: Image file not found", "Error parsing permutation",
     "Error creating GIF"}

Reported(stream) == \E k \in 1..Len(stream) : stream[k] \in Diagnostics

\* C7: when the run has ended, either it succeeded and the complete output
\* file is at the output path, or it reported a diagnostic, exited
\* non-zero, and the output path holds no half-written or damaged file: it
\* holds nothing, or the file that was there before, untouched.
C7_NoPartialOutput ==
    pc = "exited" =>
        \/ exit_status = 0 /\ out_file = "complete"
        \/ /\ exit_status # 0
           /\ Reported(stdout) \/ Reported(stderr)
           /\ out_file \in {"absent", "old"}

\* A step of the program can be taken: the guard of one of its steps holds.
CanStep ==
    \/ pc \in {"check_input", "validate", "open", "save"}
    \/ pc = "render" /\ Len(frames) < 10

\* C8: the run ends with status 0 exactly when the output file was written,
\* and with status 1 on a missing input file, an invalid permutation, a
\* decode failure or a write failure; a run that has not ended can go on.
C8_ExitStatus ==
    /\ pc # "exited" => exit_status = -1 /\ CanStep
    /\ pc = "exited" =>
          /\ exit_status \in {0, 1}
          /\ exit_status = 0 <=> (failure = "none" /\ out_file = "complete")
          /\ failure \in {"missing_input", "invalid_permutation", "decode",
                          "write"} => exit_status = 1
          /\ failure = "none" => encoder_call # <<>>

\* C8's case: the write of the output file failed.
C8_Witness ==
    /\ pc = "exited"
    /\ failure = "write"
    /\ exit_status = 1

\* C9: on every failure the diagnostic is on the error stream and not on
\* the standard output stream.
C9_DiagnosticOnErrorStream ==
    failure # "none" => Reported(stderr) /\ ~Reported(stdout)

\* C10 as amended: the encoder is handed the 10 frames in the order 0..9
\* and a duration per frame which is, in the root variant,
\* duration_seconds * 1000 / 10 with its fraction dropped, and 500 in the
\* gifboxes variant.
C10_EncoderArguments ==
    encoder_call # <<>> =>
        /\ Len(frames) = 10
        /\ Len(encoder_call.frames) = 10
        /\ \A k \in 1..10 : encoder_call.frames[k] = frames[k]
        /\ variant = "root" =>
              /\ encoder_call.duration >= 0
              /\ encoder_call.duration * 10 * DurDenom <= duration * 1000
              /\ duration * 1000 < (encoder_call.duration + 1) * 10 * DurDenom
        /\ variant = "gifboxes" => encoder_call.duration = 500

\* C10's case: a total duration of 3/16 s, 18.75 ms per frame.
C10_Witness ==
    /\ encoder_call # <<>>
    /\ variant = "root"
    /\ duration = 3
    /\ encoder_call.duration = 18

\* C10 as first stated: the duration per frame is duration_seconds * 1000
\* / 10 rounded to an integer, that is to a nearest one (a tie may go
\* either way).
C10_DurationRounded ==
    (encoder_call # <<>> /\ variant = "root") =>
        LET twice == 2 * (duration * 1000 - encoder_call.duration * 10 * DurDenom)
        IN  /\ twice <= 10 * DurDenom
            /\ 0 - twice <= 10 * DurDenom

====
